---- MODULE Spec2Model ----
(***************************************************************************)
(* treecrypt.py: a recursive walk over a directory tree that, per          *)
(* directory, packs the directory's own files into the sibling archive     *)
(* <directory>.7z (encrypt), or unpacks every *.7z file of the directory   *)
(* into a directory named after it (decrypt).                              *)
(*                                                                         *)
(* A file or directory name is a sequence of tokens, <<"s", ".7z">> being  *)
(* the name s.7z; a path is a sequence of names below the directory that   *)
(* holds the root of the walk.  The names are shell-safe: the quoting of   *)
(* names with blanks or metacharacters in the command lines is outside     *)
(* this model.  The external commands (7z, mkdir, rm, rmrf) are modelled   *)
(* by the set of outcomes one invocation can have.                         *)
(***************************************************************************)
EXTENDS Integers, Sequences, FiniteSets, TLC

VARIABLES
    dirs,       \* the directories on disk: a set of paths
    files,      \* the files on disk: path -> content
    stack,      \* the frames of encrypt/decrypt, innermost first
    status,     \* "idle" | "run" | "raise" (a CalledProcessError propagating)
    action,     \* "e" | "d": the action of the running pass
    exitcode,   \* exit status of the last finished pass
    passes,     \* number of finished passes
    start,      \* history: the disk when the running pass started
    trace,      \* history: the listings and commands of the running pass, in order
    hist        \* history: one record per finished pass

vars == <<dirs, files, stack, status, action, exitcode, passes, start, trace, hist>>

\* Number of invocations of the tool on the same tree.
MaxPasses == 2

----------------------------------------------------------------------------
(* Names, paths, contents *)

Ext == ".7z"

Front(s) == SubSeq(s, 1, Len(s) - 1)

Last(s) == s[Len(s)]

\* filename.endswith('.7z')
endswith7z(filename) == Len(filename) > 0 /\ Last(filename) = Ext

\* os.path.splitext(archive)[0]: the name without its last extension; a name
\* that is nothing but the extension (".7z") has no extension to strip.
splitext(filename) == IF Len(filename) > 1 THEN Front(filename) ELSE filename

\* os.path.join(path, name)
join(path, name) == Append(path, name)

\* f'{location}.7z' for f'{path}.7z', with location = os.path.dirname(path):
\* the archive named after the parent directory.
ArchivePathOfLocation(path) ==
    IF Len(path) > 1
    THEN Append(Front(Front(path)), Append(Last(Front(path)), Ext))
    ELSE Append(Front(path), Append(Last(path), Ext))

\* f'{path}.7z': the extension appended to the directory's own path, which
\* names a file beside the directory, in its parent.
ArchivePath(path) == Append(Front(path), Append(Last(path), Ext))

EmptyMap == [n \in {} |-> 0]

Merge(f, g) == [x \in (DOMAIN f) \cup (DOMAIN g) |-> IF x \in DOMAIN f THEN f[x] ELSE g[x]]

Remove(f, S) == [x \in (DOMAIN f) \ S |-> f[x]]

Data(b) == [kind |-> "data", bytes |-> b, entries |-> EmptyMap]

Archive(e) == [kind |-> "7z", bytes |-> "", entries |-> e]

Perms(S) == {p \in [1..Cardinality(S) -> S] : \A i, j \in 1..Cardinality(S) : p[i] = p[j] => i = j}

\* The directory names of the whole walk instead of those of its first step.
dirnamesOfAllLevels(d, path) == {Last(p) : p \in {q \in d : Len(q) > Len(path) /\ SubSeq(q, 1, Len(path)) = path}}

\* next(os.walk(path)): the names of the immediate subdirectories and files
dirnamesOf(d, path) == {Last(p) : p \in {q \in d : Len(q) = Len(path) + 1 /\ Front(q) = path}}

filenamesOf(f, path) == {Last(p) : p \in {q \in DOMAIN f : Len(q) = Len(path) + 1 /\ Front(q) = path}}

----------------------------------------------------------------------------
(* The external commands: each operator is the set of outcomes of one run *)

Outcome(e, d, f) == [exit |-> e, dirs |-> d, files |-> f]

\* 7z a "<archive>" <targets>, run in cwd: adds the targets to the archive,
\* creating it or updating the one that is there.  A run can fail having
\* written nothing (exit 2), or having written the archive without the
\* targets it could not read (exit 1, a warning).
SevenZipAdd(d, f, cwd, archive, targets) ==
    LET old == IF archive \in DOMAIN f THEN f[archive].entries ELSE EmptyMap
        written(T) == Merge([p \in {archive} |-> Archive(Merge([n \in T |-> f[join(cwd, n)]], old))], f)
    IN  IF archive \in DOMAIN f /\ f[archive].kind # "7z"
        THEN {Outcome(2, d, f)}
        ELSE {Outcome(0, d, written(targets)), Outcome(2, d, f)}
             \cup {Outcome(1, d, written(T)) : T \in (SUBSET targets) \ {{}, targets}}

\* 7z e -o<dirname> <archive>, run in cwd: writes the archive's entries into
\* cwd/dirname.  An entry whose name is a directory there cannot be written;
\* for entries that are files there 7z asks, and the answer overwrites or
\* skips them.  A failed run leaves any part of the entries written.
SevenZipExtract(d, f, cwd, dirname, archive) ==
    LET c == f[join(cwd, archive)]
        dest == join(cwd, dirname)
        names == DOMAIN c.entries
        blocked == {n \in names : join(dest, n) \in d}
        clash == {n \in names : join(dest, n) \in DOMAIN f}
        put(T) == Merge([p \in {join(dest, n) : n \in T} |-> c.entries[Last(p)]], f)
    IN  IF c.kind # "7z" \/ dest \notin d
        THEN {Outcome(2, d, f)}
        ELSE (IF blocked = {} THEN {Outcome(0, d, put(names)), Outcome(0, d, put(names \ clash))} ELSE {})
             \cup {Outcome(2, d, put(T)) : T \in SUBSET (names \ blocked)}

\* mkdir -p <dirname>, run in cwd: fails when a file has that name
MkdirP(d, f, cwd, dirname) ==
    IF join(cwd, dirname) \in DOMAIN f
    THEN {Outcome(1, d, f)}
    ELSE {Outcome(0, d \cup {join(cwd, dirname)}, f)}

\* rm -rf <names>, run in cwd: never fails
RmRf(d, f, cwd, names) == {Outcome(0, d, Remove(f, {join(cwd, n) : n \in names}))}

\* rmrf given the directory instead of the names: every file of cwd goes.
RmrfDirectory(d, f, cwd, names) ==
    {Outcome(0, d, Remove(f, {p \in DOMAIN f : Len(p) = Len(cwd) + 1 /\ Front(p) = cwd})), Outcome(127, d, f)}

\* rmrf <names>, run in cwd: a command the repository does not define; where
\* it is installed it removes the names, where it is not the shell exits 127.
Rmrf(d, f, cwd, names) ==
    {Outcome(0, d, Remove(f, {join(cwd, n) : n \in names})), Outcome(127, d, f)}

\* The names of the archive's entries that are files of cwd/dirname already.
Clash(f, cwd, dirname, archive) ==
    {n \in DOMAIN f[join(cwd, archive)].entries : join(join(cwd, dirname), n) \in DOMAIN f}

\* call with the raise left out: the exit status is returned and dropped.
callNoThrow(exit) == FALSE

\* call(cmd) with throw=True raises CalledProcessError on a non-zero exit.
call(exit) == exit # 0

----------------------------------------------------------------------------
(* The tree the tool is run on *)

Root == <<<<"r">>>>

\* The directory the tool is started from.
Cwd == <<>>

S == join(Root, <<"s">>)

T == join(Root, <<"t">>)

U == join(S, <<"u">>)

Tree == {Cwd, Root, S, T, U}

NameA == <<"a">>

NameB == <<"b">>

NameX7 == <<"x", Ext>>

NameY7 == <<"y", Ext>>

NameA7 == <<"a", Ext>>

\* An archive that was in the tree before the tool ran, and the content of
\* a file that is no archive.
Foreign == Archive(Merge([n \in {NameB} |-> Data("c2")], [n \in {NameY7} |-> Archive([m \in {NameA} |-> Data("c3")])]))

Plain(names) == [n \in names |-> IF n = NameA THEN Data("c1") ELSE IF n = NameB THEN Data("c2") ELSE Data("c3")]

\* The files a directory may hold at first: name -> content.
Menu(path) ==
    CASE path = Root -> {EmptyMap, Merge([n \in {NameX7} |-> Foreign], Plain({NameA}))}
      [] path = S -> {EmptyMap, Plain({NameA, NameB}),
                      Merge([n \in {NameA7} |-> Archive(Plain({NameB}))], Plain({NameA}))}
      [] path = T -> {EmptyMap, Plain({NameB})}
      [] path = U -> {EmptyMap, Plain({NameX7})}
      [] OTHER -> {EmptyMap}

Populate(m) ==
    LET P == {<<d, n>> : d \in Tree, n \in {NameA, NameB, NameX7, NameA7}}
        Q == {q \in P : q[2] \in DOMAIN m[q[1]]}
    IN  [p \in {join(q[1], q[2]) : q \in Q} |-> m[Front(p)][Last(p)]]

----------------------------------------------------------------------------
(* The walk *)

Frame(path) == [path |-> path, pc |-> "walk", dirnames |-> <<>>, filenames |-> {}, archives |-> <<>>]

Top == stack[1]

SetTop(fr) == <<fr>> \o Tail(stack)

\* The branch without the test of filenames.
BranchUnguarded(a, fns, as) ==
    IF a = "e" THEN "add"
    ELSE IF as = <<>> THEN "dirs" ELSE "mkdir"

\* Where a frame goes after its listing.  encrypt: if filenames: ... ;
\* decrypt: if filenames: for archive in archives: ...
Branch(a, fns, as) ==
    IF fns = {} THEN "dirs"
    ELSE IF a = "e" THEN "add"
    ELSE IF as = <<>> THEN "dirs" ELSE "mkdir"

\* One entry of the history: a listing (op "walk", with the names it found)
\* or a command (with the names it was given and its exit status).
Event(op, path, names, subs, exit, prompt) ==
    [op |-> op, path |-> path, names |-> names, subs |-> subs, exit |-> exit, prompt |-> prompt]

Init ==
    /\ dirs = Tree
    /\ \E m \in [Tree -> UNION {Menu(d) : d \in Tree}] :
          /\ \A d \in Tree : m[d] \in Menu(d)
          /\ files = Populate(m)
    /\ stack = <<>>
    /\ status = "idle"
    /\ action = "e"
    /\ exitcode = 0
    /\ passes = 0
    /\ start = [dirs |-> dirs, files |-> files]
    /\ trace = <<>>
    /\ hist = <<>>

\* main, treecrypt: dispatch on the action, from os.path.abspath(path)
Start(a) ==
    /\ status = "idle"
    /\ passes < MaxPasses
    /\ status' = "run"
    /\ action' = a
    /\ stack' = <<Frame(Root)>>
    /\ start' = [dirs |-> dirs, files |-> files]
    /\ trace' = <<>>
    /\ UNCHANGED <<dirs, files, exitcode, passes, hist>>

\* _, dirnames, filenames = next(os.walk(path)), and the branch on filenames
\* (decrypt: on the names that end in .7z as well, an empty loop)
Walk ==
    /\ status = "run"
    /\ stack # <<>>
    /\ Top.pc = "walk"
    /\ LET fns == filenamesOf(files, Top.path)
           dns == dirnamesOf(dirs, Top.path)
           arcs == IF action = "d" THEN {n \in fns : endswith7z(n)} ELSE {}
       IN  /\ \E ds \in Perms(dns), as \in Perms(arcs) :
                 stack' = SetTop([Top EXCEPT !.dirnames = ds, !.filenames = fns, !.archives = as,
                                             !.pc = Branch(action, fns, as)])
           /\ trace' = Append(trace, Event("walk", Top.path, fns, dns, 0, FALSE))
    /\ UNCHANGED <<dirs, files, status, action, exitcode, passes, start, hist>>

\* The running frame after a command: the disk as the command left it, and
\* either the exception or the next position.
Step(o, fr, evs) ==
    /\ dirs' = o.dirs
    /\ files' = o.files
    /\ trace' = trace \o evs
    /\ IF call(o.exit)
       THEN status' = "raise" /\ stack' = stack
       ELSE status' = status /\ stack' = SetTop(fr)
    /\ UNCHANGED <<action, exitcode, passes, start, hist>>

\* encrypt: archive = f'{path}.7z'; if it is a file, call('rm -rf {archive}'),
\* a plain string, so the shell removes the name "{archive}" of its own
\* directory; then, in path, 7z a "{archive}" {targets}
EncryptAdd ==
    /\ status = "run"
    /\ stack # <<>>
    /\ Top.pc = "add"
    /\ LET archive == ArchivePath(Top.path)
           isfile == archive \in DOMAIN files
           rm == IF isfile THEN <<Event("rm", Cwd, {<<"{archive}">>}, {}, 0, FALSE)>> ELSE <<>>
       IN  \E r \in (IF isfile THEN RmRf(dirs, files, Cwd, {<<"{archive}">>}) ELSE {Outcome(0, dirs, files)}) :
              IF call(r.exit)
              THEN Step(r, Top, rm)
              ELSE \E o \in SevenZipAdd(r.dirs, r.files, Top.path, archive, Top.filenames) :
                      Step(o, [Top EXCEPT !.pc = "del"],
                           rm \o <<Event("add", Top.path, Top.filenames, {}, o.exit, FALSE)>>)

\* encrypt: if os.path.isfile(archive): call(f'rmrf {targets}')
EncryptRemove ==
    /\ status = "run"
    /\ stack # <<>>
    /\ Top.pc = "del"
    /\ IF ArchivePath(Top.path) \in DOMAIN files
       THEN \E o \in Rmrf(dirs, files, Top.path, Top.filenames) :
               Step(o, [Top EXCEPT !.pc = "dirs"],
                    <<Event("rmrf", Top.path, Top.filenames, {}, o.exit, FALSE)>>)
       ELSE Step(Outcome(0, dirs, files), [Top EXCEPT !.pc = "dirs"], <<>>)

\* decrypt: dirname = os.path.splitext(archive)[0]; call(f'mkdir -p {dirname}')
DecryptMkdir ==
    /\ status = "run"
    /\ stack # <<>>
    /\ Top.pc = "mkdir"
    /\ \E o \in MkdirP(dirs, files, Top.path, splitext(Head(Top.archives))) :
          Step(o, [Top EXCEPT !.pc = "extract"],
               <<Event("mkdir", Top.path, {splitext(Head(Top.archives))}, {}, o.exit, FALSE)>>)

\* decrypt: call(f'7z e -p"{password}" -o{dirname} {archive}')
DecryptExtract ==
    /\ status = "run"
    /\ stack # <<>>
    /\ Top.pc = "extract"
    /\ LET archive == Head(Top.archives)
           dirname == splitext(archive)
       IN  \E o \in SevenZipExtract(dirs, files, Top.path, dirname, archive) :
              Step(o, [Top EXCEPT !.pc = "rmrf"],
                   <<Event("extract", Top.path, {archive}, {}, o.exit,
                           Clash(files, Top.path, dirname, archive) # {})>>)

\* decrypt: call(f'rmrf {archive}'), and the next archive of the loop
DecryptRemove ==
    /\ status = "run"
    /\ stack # <<>>
    /\ Top.pc = "rmrf"
    /\ \E o \in Rmrf(dirs, files, Top.path, {Head(Top.archives)}) :
          Step(o, [Top EXCEPT !.archives = Tail(Top.archives),
                              !.pc = IF Tail(Top.archives) = <<>> THEN "dirs" ELSE "mkdir"],
               <<Event("rmrf", Top.path, {Head(Top.archives)}, {}, o.exit, FALSE)>>)

\* The loop with the return inside it: only the first subdirectory is entered.
RecurseFirstOnly ==
    /\ status = "run"
    /\ stack # <<>>
    /\ Top.pc = "dirs"
    /\ Top.dirnames # <<>>
    /\ stack' = <<Frame(join(Top.path, Head(Top.dirnames)))>>
                \o SetTop([Top EXCEPT !.dirnames = <<>>])
    /\ UNCHANGED <<dirs, files, status, action, exitcode, passes, start, trace, hist>>

\* for dirname in dirnames: encrypt/decrypt(os.path.join(path, dirname), ...)
Recurse ==
    /\ status = "run"
    /\ stack # <<>>
    /\ Top.pc = "dirs"
    /\ Top.dirnames # <<>>
    /\ stack' = <<Frame(join(Top.path, Head(Top.dirnames)))>>
                \o SetTop([Top EXCEPT !.dirnames = Tail(Top.dirnames)])
    /\ UNCHANGED <<dirs, files, status, action, exitcode, passes, start, trace, hist>>

\* return empty
Return ==
    /\ status = "run"
    /\ stack # <<>>
    /\ Top.pc = "dirs"
    /\ Top.dirnames = <<>>
    /\ stack' = Tail(stack)
    /\ UNCHANGED <<dirs, files, status, action, exitcode, passes, start, trace, hist>>

\* A frame that catches the exception and goes on with its loop.
PropagateCaught ==
    /\ status = "raise"
    /\ stack # <<>>
    /\ stack' = Tail(stack)
    /\ status' = IF Tail(stack) = <<>> THEN "raise" ELSE "run"
    /\ UNCHANGED <<dirs, files, action, exitcode, passes, start, trace, hist>>

\* The exception leaves one frame: no handler anywhere, and the cd context
\* manager only restores the working directory.
Propagate ==
    /\ status = "raise"
    /\ stack # <<>>
    /\ stack' = Tail(stack)
    /\ UNCHANGED <<dirs, files, status, action, exitcode, passes, start, trace, hist>>

\* The process ends: exit status 0 after treecrypt returned, 1 after the
\* uncaught exception.
Exit ==
    /\ status \in {"run", "raise"}
    /\ stack = <<>>
    /\ status' = "idle"
    /\ exitcode' = IF status = "raise" THEN 1 ELSE 0
    /\ passes' = passes + 1
    /\ hist' = Append(hist, [action |-> action, exit |-> exitcode', start |-> start])
    /\ trace' = <<>>
    /\ UNCHANGED <<dirs, files, stack, action, start>>

Next ==
    \/ \E a \in {"e", "d"} : Start(a)
    \/ Walk
    \/ EncryptAdd
    \/ EncryptRemove
    \/ DecryptMkdir
    \/ DecryptExtract
    \/ DecryptRemove
    \/ Recurse
    \/ Return
    \/ Propagate
    \/ Exit

Spec == Init /\ [][Next]_vars

----------------------------------------------------------------------------
(* Vocabulary of the properties *)

\* The part of a disk that lies in the tree: the root and what is below it.
InTree(p) == Len(p) >= Len(Root) /\ SubSeq(p, 1, Len(Root)) = Root

TreeOf(d, f) == [dirs |-> {p \in d : InTree(p)}, files |-> [p \in {q \in DOMAIN f : InTree(q)} |-> f[p]]]

\* The pass has run to its end (treecrypt returned or the exception left it)
\* and the process has not exited yet.
AtEnd == status \in {"run", "raise"} /\ stack = <<>> /\ trace # <<>>

Completed == AtEnd /\ status = "run"

\* The step taken is the command of the running frame at position pc.
Took(pc) == status = "run" /\ stack # <<>> /\ Top.pc = pc /\ trace' # trace

Events(op) == {i \in 1..Len(trace) : trace[i].op = op}

\* No pass before the running one has failed.
NoFailureBefore == \A i \in 1..Len(hist) : hist[i].exit = 0

----------------------------------------------------------------------------
(* C1: encrypt on the root and then decrypt on the same root, both passes   *)
(* without a failure, leave the tree (the root's own files included) with   *)
(* the file names, contents and directories it had before the encrypt.      *)
(* Stated as claimed; the code violates it.                                 *)
C1_RoundTrip ==
    (/\ status = "idle"
     /\ Len(hist) = 2
     /\ hist[1].action = "e" /\ hist[1].exit = 0
     /\ hist[2].action = "d" /\ hist[2].exit = 0)
    => TreeOf(dirs, files) = TreeOf(hist[1].start.dirs, hist[1].start.files)

(* C2 as claimed: when the 7z run of encrypt fails in directory D, every    *)
(* file of D is still there unchanged, no archive has appeared at <D>.7z,   *)
(* and the failure is raised.                                               *)
C2_NoArchiveAfterFailure ==
    [][(Took("add") /\ Last(trace').op = "add" /\ Last(trace').exit # 0)
       => /\ \A n \in Top.filenames :
                /\ join(Top.path, n) \in DOMAIN files'
                /\ files'[join(Top.path, n)] = files[join(Top.path, n)]
          /\ (ArchivePath(Top.path) \notin DOMAIN files => ArchivePath(Top.path) \notin DOMAIN files')
          /\ status' = "raise"]_vars

(* C2 amended: when the 7z run of encrypt fails in directory D, the failure *)
(* is raised and nothing on disk differs from before the run, except that   *)
(* <D>.7z is as the failed run left it: encrypt neither removes the files   *)
(* of D nor cleans up the archive.                                          *)
C2_FailureContainment ==
    [][(Took("add") /\ Last(trace').op = "add" /\ Last(trace').exit # 0)
       => /\ \A n \in Top.filenames :
                /\ join(Top.path, n) \in DOMAIN files'
                /\ files'[join(Top.path, n)] = files[join(Top.path, n)]
          /\ Remove(files', {ArchivePath(Top.path)}) = Remove(files, {ArchivePath(Top.path)})
          /\ dirs' = dirs
          /\ status' = "raise"]_vars

\* A failed 7z run has left an archive the pass did not start with, beside
\* the files it was given.
C2_Witness ==
    /\ status = "raise"
    /\ trace # <<>>
    /\ Last(trace).op = "add"
    /\ Last(trace).exit # 0
    /\ Cardinality(Last(trace).names) > 1
    /\ ArchivePath(Last(trace).path) \in DOMAIN files
    /\ ArchivePath(Last(trace).path) \notin DOMAIN start.files

(* C3 as claimed: when encrypt reaches a directory D that has files while   *)
(* a file already is at <D>.7z, then after the 7z run succeeded the archive *)
(* holds exactly the files listed in D, with nothing of the earlier         *)
(* archive.  The code violates it, already when no pass has failed: its rm  *)
(* command names no file.                                                   *)
C3_FreshArchive ==
    [][(Took("add") /\ NoFailureBefore /\ ArchivePath(Top.path) \in DOMAIN files /\ status' = "run")
       => files'[ArchivePath(Top.path)].entries
             = [n \in Top.filenames |-> files[join(Top.path, n)]]]_vars

(* C5: a command that exits non-zero raises; from then on nothing on disk   *)
(* changes and no further command or listing runs until the process exits   *)
(* with status 1: what the pass did before the failure stays as it is.      *)
C5_FailureHalts ==
    [][/\ (trace' # trace /\ trace' # <<>> /\ Last(trace').exit # 0) => status' = "raise"
       /\ status = "raise"
             => /\ dirs' = dirs /\ files' = files
                /\ trace' \in {trace, <<>>}
                /\ \/ status' = "raise"
                   \/ status' = "idle" /\ exitcode' = 1]_vars

\* A pass that changed the disk, failed, and left a directory of the tree
\* unvisited.
C5_Witness ==
    /\ status = "idle"
    /\ exitcode = 1
    /\ hist # <<>>
    /\ Last(hist).start.files # files
    /\ \E d \in Last(hist).start.dirs : InTree(d) /\ filenamesOf(files, d) # {}
                                        /\ filenamesOf(files, d) = filenamesOf(Last(hist).start.files, d)

(* C4 as claimed: for every archive name.7z that decrypt extracted, after   *)
(* the pass the directory name exists and name.7z is gone when the          *)
(* extraction succeeded, and name.7z is still there when it failed.  The    *)
(* removal is a command of its own, and it can fail.                        *)
C4_ArchiveGoneAfterExtract ==
    (AtEnd /\ action = "d")
    => \A i \in Events("extract") :
          LET e == trace[i]
              archive == CHOOSE n \in e.names : TRUE
          IN  /\ join(e.path, splitext(archive)) \in dirs
              /\ e.exit = 0 <=> join(e.path, archive) \notin DOMAIN files

(* C4 amended: for every archive name.7z decrypt works on: when the         *)
(* extraction succeeds, the directory name exists and holds a file for      *)
(* every entry of the archive (with the entry's content, unless a file of   *)
(* that name was there before), and name.7z is removed by the rmrf command  *)
(* that follows, if that command succeeds; when the extraction or the       *)
(* removal fails, name.7z is still there unchanged, no directory is         *)
(* removed, and the failure is raised.                                      *)
C4_PerArchiveOutcome ==
    [][/\ Took("extract") =>
             LET archive == Head(Top.archives)
                 src == join(Top.path, archive)
                 dest == join(Top.path, splitext(archive))
             IN  /\ dest \in dirs' /\ dirs \subseteq dirs'
                 /\ src \in DOMAIN files' /\ files'[src] = files[src]
                 /\ status' = "raise" <=> Last(trace').exit # 0
                 /\ status' = "run" =>
                       \A n \in DOMAIN files[src].entries :
                          /\ join(dest, n) \in DOMAIN files'
                          /\ join(dest, n) \notin DOMAIN files => files'[join(dest, n)] = files[src].entries[n]
       /\ Took("rmrf") =>
             LET archive == Head(Top.archives)
                 src == join(Top.path, archive)
             IN  /\ dirs' = dirs
                 /\ status' = "run" => src \notin DOMAIN files' /\ Remove(files, {src}) = files'
                 /\ status' = "raise" => files' = files /\ Last(trace').exit # 0]_vars

\* An archive has been extracted into a directory made for it and removed,
\* and another extraction has failed with its archive left in place.
C4_Witness ==
    /\ action = "d"
    /\ status = "raise"
    /\ \E i, j \in Events("extract") :
          /\ trace[i].exit = 0
          /\ \A n \in trace[i].names :
                /\ join(trace[i].path, n) \notin DOMAIN files
                /\ join(trace[i].path, splitext(n)) \in dirs \ start.dirs
                /\ filenamesOf(files, join(trace[i].path, splitext(n))) # {}
          /\ trace[j].exit # 0
          /\ \A n \in trace[j].names : join(trace[j].path, n) \in DOMAIN files

(* C6 as claimed: when the extraction of one archive of a directory fails,  *)
(* decrypt still runs the extraction of every other archive it listed in    *)
(* that directory.  (Violated already after passes that did not fail.)      *)
C6_IndependentArchives ==
    (AtEnd /\ action = "d" /\ NoFailureBefore)
    => \A i \in Events("extract") : \A w \in Events("walk") :
          (trace[i].exit # 0 /\ trace[w].path = trace[i].path)
          => \A n \in {m \in trace[w].names : endswith7z(m)} :
                \E j \in Events("extract") : trace[j].path = trace[i].path /\ trace[j].names = {n}

(* C6 amended: when the extraction of one archive of a directory fails,     *)
(* decrypt raises at once: the failed extraction is the last command of the *)
(* pass, and the archives that come after it in the directory's listing are *)
(* never extracted.                                                         *)
C6_FirstFailureEndsLoop ==
    \A i \in Events("extract") : trace[i].exit # 0 => i = Len(trace) /\ status = "raise"

\* The extraction of one archive failed and another archive of the same
\* listing has not been given to 7z.
C6_Witness ==
    /\ AtEnd
    /\ action = "d"
    /\ Last(trace).op = "extract"
    /\ Last(trace).exit # 0
    /\ \E w \in Events("walk") :
          /\ trace[w].path = Last(trace).path
          /\ \E n \in trace[w].names :
                /\ endswith7z(n)
                /\ \A j \in Events("extract") : trace[j].names # {n}

\* The file beside directory d that is named after it.
Sibling(d) == Append(Front(d), Append(Last(d), Ext))

OnlyEncrypted == action = "e" /\ \A i \in 1..Len(hist) : hist[i].action = "e"

(* C7 as claimed: in every state reached by encrypt passes alone (one, a    *)
(* repeated one, a re-run after a failure), the archive beside a directory  *)
(* D holds no archive that encrypt wrote for a subdirectory of D.           *)
(* (Violated already by a repeated pass after one that did not fail.)       *)
C7_NoChildArchive ==
    (OnlyEncrypted /\ NoFailureBefore)
    => \A d \in {x \in dirs : InTree(x)} :
          Sibling(d) \in DOMAIN files
          => \A n \in DOMAIN files[Sibling(d)].entries :
                ~ \E sub \in dirnamesOf(dirs, d) : n = Append(sub, Ext)

(* C7 amended: whatever one encrypt pass puts into the archive beside a     *)
(* directory D is a file that was directly inside D when the pass started,  *)
(* with the content it had then: never an archive the same pass wrote for a *)
(* subdirectory, nor a file of a subdirectory.  (The files of D at the      *)
(* start of a repeated pass or a re-run include the archives an earlier     *)
(* pass wrote for the subdirectories of D, and they are archived with the   *)
(* rest.)                                                                   *)
C7_SinglePass ==
    (action = "e" /\ status \in {"run", "raise"})
    => \A d \in {x \in start.dirs : InTree(x)} :
          Sibling(d) \in DOMAIN files
          => \A n \in DOMAIN files[Sibling(d)].entries :
                \/ /\ join(d, n) \in DOMAIN start.files
                   /\ start.files[join(d, n)] = files[Sibling(d)].entries[n]
                \/ /\ Sibling(d) \in DOMAIN start.files
                   /\ n \in DOMAIN start.files[Sibling(d)].entries
                   /\ start.files[Sibling(d)].entries[n] = files[Sibling(d)].entries[n]

\* A pass has archived the files of a directory and then those of one of
\* its subdirectories.
C7_Witness ==
    /\ action = "e"
    /\ status = "run"
    /\ \E i, j \in Events("add") :
          /\ i < j
          /\ trace[i].exit = 0 /\ trace[j].exit = 0
          /\ Front(trace[j].path) = trace[i].path
          /\ Sibling(trace[j].path) \in DOMAIN files
          /\ Sibling(trace[i].path) \in DOMAIN files

(* C9 as claimed: a directory D that a pass listed with no file in it has   *)
(* no file in it after the pass, and no archive has appeared beside it.     *)
C9_EmptyUnchanged ==
    Completed
    => \A w \in Events("walk") :
          trace[w].names = {}
          => /\ filenamesOf(files, trace[w].path) = {}
             /\ Sibling(trace[w].path) \in DOMAIN files
                   => /\ Sibling(trace[w].path) \in DOMAIN start.files
                      /\ start.files[Sibling(trace[w].path)] = files[Sibling(trace[w].path)]

(* C9 amended: a directory D that a pass listed with no file in it is given *)
(* no command and raises no error of its own, and no archive appears beside *)
(* it; after a decrypt pass D still holds no file, and after an encrypt     *)
(* pass D holds exactly the archives <sub>.7z that the pass wrote for the   *)
(* subdirectories of D it found files in: D does change when its            *)
(* subdirectories are encrypted.                                            *)
C9_EmptyVisit ==
    \A w \in Events("walk") :
       trace[w].names = {}
       => LET d == trace[w].path
              wrote == {sub \in trace[w].subs :
                          \E i \in Events("add") : trace[i].path = join(d, sub)
                                                   /\ Sibling(join(d, sub)) \in DOMAIN files}
          IN  /\ \A i \in 1..Len(trace) : (trace[i].path = d /\ trace[i].op # "rm") => i = w
              /\ Sibling(d) \in DOMAIN files
                    => /\ Sibling(d) \in DOMAIN start.files
                       /\ start.files[Sibling(d)] = files[Sibling(d)]
              /\ action = "d" => filenamesOf(files, d) = {}
              /\ action = "e" => filenamesOf(files, d) = {Append(sub, Ext) : sub \in wrote}

\* An encrypt pass is over that found no file in a directory and files in
\* one of its subdirectories.
C9_Witness ==
    /\ Completed
    /\ action = "e"
    /\ \E w \in Events("walk") :
          /\ trace[w].names = {}
          /\ filenamesOf(files, trace[w].path) # {}
    /\ \E w \in Events("walk") :
          /\ trace[w].names = {}
          /\ trace[w].subs # {}
          /\ filenamesOf(files, trace[w].path) = {}

Ancestor(p, q) == Len(p) < Len(q) /\ SubSeq(q, 1, Len(p)) = p

(* C10: a pass that runs to its end has listed exactly the directories that *)
(* were in the tree when it started, each once and after all its ancestors; *)
(* a directory the pass made is not listed, whatever was extracted into it. *)
C10_VisitSet ==
    Completed
    => /\ {trace[i].path : i \in Events("walk")} = {d \in start.dirs : InTree(d)}
       /\ \A i, j \in Events("walk") :
             /\ trace[i].path = trace[j].path => i = j
             /\ Ancestor(trace[i].path, trace[j].path) => i < j
       /\ \A d \in dirs \ start.dirs : \A i \in 1..Len(trace) : trace[i].path # d

\* A decrypt pass is over that made a directory and left an archive in it.
C10_Witness ==
    /\ Completed
    /\ action = "d"
    /\ \E d \in dirs \ start.dirs : \E n \in filenamesOf(files, d) : endswith7z(n)
    /\ \E i, j \in Events("walk") : i < j /\ Ancestor(trace[i].path, trace[j].path)

----------------------------------------------------------------------------
(* encrypt and decrypt as functions of the disk: the result of a pass in    *)
(* which every command succeeds, the names of each listing taken in one     *)
(* fixed order.                                                             *)

Disk(ok, d, f) == [ok |-> ok, dirs |-> d, files |-> f]

\* The disk after a command that succeeded
Done(k, outs) ==
    IF k.ok /\ \E o \in outs : o.exit = 0
    THEN LET o == CHOOSE x \in outs : x.exit = 0 IN Disk(TRUE, o.dirs, o.files)
    ELSE Disk(FALSE, k.dirs, k.files)

Order(names) == CHOOSE p \in Perms(names) : TRUE

RECURSIVE EncryptTree(_, _), EncryptDirs(_, _, _)

EncryptTree(k, path) ==
    LET fns == filenamesOf(k.files, path)
        dns == dirnamesOf(k.dirs, path)
        archive == ArchivePath(path)
        r == IF archive \in DOMAIN k.files THEN Done(k, RmRf(k.dirs, k.files, Cwd, {<<"{archive}">>})) ELSE k
        a == Done(r, SevenZipAdd(r.dirs, r.files, path, archive, fns))
        b == IF archive \in DOMAIN a.files THEN Done(a, Rmrf(a.dirs, a.files, path, fns)) ELSE a
    IN  IF ~k.ok THEN k
        ELSE EncryptDirs(IF fns = {} THEN k ELSE b, path, Order(dns))

EncryptDirs(k, path, dirnames) ==
    IF dirnames = <<>> THEN k
    ELSE EncryptDirs(EncryptTree(k, join(path, Head(dirnames))), path, Tail(dirnames))

RECURSIVE DecryptTree(_, _), DecryptArchives(_, _, _), DecryptDirs(_, _, _)

DecryptTree(k, path) ==
    LET fns == filenamesOf(k.files, path)
        dns == dirnamesOf(k.dirs, path)
    IN  IF ~k.ok THEN k
        ELSE DecryptDirs(DecryptArchives(k, path, Order({n \in fns : endswith7z(n)})), path, Order(dns))

DecryptArchives(k, path, archives) ==
    LET archive == Head(archives)
        dirname == splitext(archive)
        m == Done(k, MkdirP(k.dirs, k.files, path, dirname))
        x == Done(m, SevenZipExtract(m.dirs, m.files, path, dirname, archive))
        r == Done(x, Rmrf(x.dirs, x.files, path, {archive}))
    IN  IF archives = <<>> \/ ~k.ok THEN k
        ELSE DecryptArchives(r, path, Tail(archives))

DecryptDirs(k, path, dirnames) ==
    IF dirnames = <<>> THEN k
    ELSE DecryptDirs(DecryptTree(k, join(path, Head(dirnames))), path, Tail(dirnames))

(* C8: a pass that runs to its end with every command succeeding leaves the *)
(* disk that encrypt, or decrypt, computes from the disk at the start of    *)
(* the pass when each listing is taken in one fixed order: the result is    *)
(* the same for every order of the subdirectories and of the archives.      *)
(* (A pass in which 7z asked whether to overwrite a file is left out: its   *)
(* result depends on the answer.)                                           *)
C8_OrderIndependent ==
    (Completed /\ \A i \in Events("extract") : ~trace[i].prompt)
    => LET k == Disk(TRUE, start.dirs, start.files)
           r == IF action = "e" THEN EncryptTree(k, Root) ELSE DecryptTree(k, Root)
       IN  r = Disk(TRUE, dirs, files)

\* A decrypt pass is over that extracted two archives of the root and
\* listed the root's subdirectories, each in the order opposite to the
\* fixed one, after an encrypt pass that had files to archive in both
\* subdirectories.
C8_Witness ==
    /\ Completed
    /\ action = "d"
    /\ hist # <<>> /\ Last(hist).action = "e" /\ Last(hist).exit = 0
    /\ \E i, j \in Events("extract") :
          /\ i < j
          /\ trace[i].path = Root /\ trace[j].path = Root
          /\ trace[j].names = {Order({n \in trace[1].names : endswith7z(n)})[1]}
    /\ \E i, j \in Events("walk") :
          /\ i < j
          /\ trace[i].path = join(Root, Order(trace[1].subs)[2])
          /\ trace[j].path = join(Root, Order(trace[1].subs)[1])
          /\ filenamesOf(files, trace[i].path) # {}
          /\ filenamesOf(files, trace[j].path) # {}

====
